---------------------------- MODULE Spec2Model ----------------------------
(***************************************************************************)
(* The replay buffer of catalyst/rl/offpolicy/utils.py: BufferDataset (the *)
(* ring store, get_state, get_transition_n_step, __getitem__, __len__).    *)
(*                                                                         *)
(* The code never branches on an observation, an action or a reward, only  *)
(* on the done flags and on len/pointer.  Every pushed step therefore      *)
(* carries its push order (1, 2, 3, ...) as observation, action and        *)
(* reward, which makes "which step does this slot hold" readable from the  *)
(* arrays; done flags are arbitrary.  0 is the value np.zeros pads with.   *)
(***************************************************************************)
EXTENDS Integers, Sequences, FiniteSets, TLC

\* ------------------------------------------------------------- bounds
\* max_size of the store built by Init
Capacity == 3
\* no push starts once this many steps have been pushed
MaxTotal == 8
\* history_len arguments are drawn from 1..MaxHistoryLen
MaxHistoryLen == 3
\* n_step arguments are drawn from 1..MaxNStep
MaxNStep == 3
\* the discount factor handed to get_transition_n_step
Gamma == 2
\* max_size, and the cap on pushed steps, of the store built by InitConc
ConcCapacity == 2
ConcMaxTotal == 4
\* capacity of the SamplerBuffer built by InitAcc, and the cap on the
\* episodes it is seeded with
AccCapacity == 4
MaxEpisodes == 2

VARIABLES
  buffer,   \* the BufferDataset object: its fields
  hist,     \* history of the pushes: steps begun, steps stored, the last steps
  ret,      \* what the call that has just returned gave back (Spec)
  lock,     \* holder of _store_lock
  writer,   \* the thread inside push_episode: its position and its episode
  reader,   \* the thread sampling: position, index, views held, copies made
  numpy,    \* the numpy build: how it assigns to a slot named more than once
  sampler_buffer,  \* the SamplerBuffer object: its fields (SpecAcc)
  seeded    \* how many times init_with_observation was called (SpecAcc)

vars == <<buffer, hist, ret, lock, writer, reader, numpy,
               sampler_buffer, seeded>>

Min(a, b) == IF a <= b THEN a ELSE b

\* contents of a slot np.empty left unwritten (observations, actions, rewards)
Uninit == -1

Slots(self) == 0 .. (self.max_size - 1)

\* BufferDataset.__init__; np.empty leaves dones arbitrary: garbage is one
\* of the arrays of flags
BufferDataset(max_size, history_len, n_step, gamma, garbage) ==
  [ max_size     |-> max_size,
    history_len  |-> history_len,
    n_step       |-> n_step,
    gamma        |-> gamma,
    len          |-> 0,
    pointer      |-> 0,
    observations |-> [s \in 0 .. (max_size - 1) |-> Uninit],
    actions      |-> [s \in 0 .. (max_size - 1) |-> Uninit],
    rewards      |-> [s \in 0 .. (max_size - 1) |-> Uninit],
    dones        |-> garbage ]

\* ------------------------------------------------------- push_episode
\* an episode of n steps pushed after `begun` steps: the four arrays handed
\* to push_episode
Episode(begun, ds) ==
  [ observations |-> [k \in DOMAIN ds |-> begun + k],
    actions      |-> [k \in DOMAIN ds |-> begun + k],
    rewards      |-> [k \in DOMAIN ds |-> begun + k],
    dones        |-> ds ]

\* line 63
EpisodeLen(ep) == Len(ep.rewards)

NewLen_uncapped(self, episode_len) == self.len + episode_len

NewLen_episode(self, episode_len) == Min(episode_len, self.max_size)

\* line 64
NewLen(self, episode_len) == Min(self.len + episode_len, self.max_size)

SetLen(self, ep) == [self EXCEPT !.len = NewLen(self, EpisodeLen(ep))]

\* lines 69-72, arr[indices] = vals.  A slot named once takes its value.
\* An episode longer than max_size names slots more than once, and numpy
\* gives no guarantee for the order in which it assigns, so which value
\* remains in such a slot depends on the numpy build: the last one assigned
\* to it (keeps_last) or the first.
Assigned(self, arr, vals, np) ==
  LET n        == Len(vals)
      C        == self.max_size
      first(s) == ((s - self.pointer) % C) + 1
      last(s)  == first(s) + ((n - first(s)) \div C) * C
  IN  [ s \in DOMAIN arr |->
          IF first(s) > n THEN arr[s]
          ELSE IF np.keeps_last THEN vals[last(s)] ELSE vals[first(s)] ]

\* line 69
WriteObservations(self, ep, np) ==
  [self EXCEPT !.observations = Assigned(self, @, ep.observations, np)]

\* line 70
WriteActions(self, ep, np) ==
  [self EXCEPT !.actions = Assigned(self, @, ep.actions, np)]

\* line 71
WriteRewards(self, ep, np) ==
  [self EXCEPT !.rewards = Assigned(self, @, ep.rewards, np)]

\* line 72
WriteDones(self, ep, np) ==
  [self EXCEPT !.dones = Assigned(self, @, ep.dones, np)]

NewPointer_skips(self, episode_len) ==
  (self.pointer + episode_len + 1) % self.max_size

NewPointer_saturating(self, episode_len) ==
  Min(self.pointer + episode_len, self.max_size - 1)

\* line 74
NewPointer(self, episode_len) == (self.pointer + episode_len) % self.max_size

AdvancePointer(self, ep) ==
  [self EXCEPT !.pointer = NewPointer(self, EpisodeLen(ep))]

\* the whole of push_episode, lines 62-74
push_episode(self, ep, np) ==
  AdvancePointer(
    WriteDones(
      WriteRewards(
        WriteActions(
          WriteObservations(SetLen(self, ep), ep, np), ep, np), ep, np),
      ep, np),
    ep)

\* __len__, line 132
BufferLen(self) == self.len

\* numpy's reading of an integer index into an array of max_size rows: one
\* in -max_size .. max_size-1 names a row (a negative one counts from the
\* end), any other raises IndexError (lines 92, 110)
InArray(self, idx) == -self.max_size <= idx /\ idx < self.max_size

Row(self, idx) == IF idx < 0 THEN idx + self.max_size ELSE idx

\* ---------------------------------------------------------- get_state
\* line 79
StartIdx(idx, history_len) == idx - history_len + 1

\* line 81: the state crosses the start of the array or holds a done flag
\* (a slice is clipped to the array)
NeedsWalk(self, idx, history_len) ==
  \/ StartIdx(idx, history_len) < 0
  \/ \E j \in StartIdx(idx, history_len) .. Min(idx, self.max_size - 1) :
       self.dones[j]

NextIdx_own(self, idx, i) == (idx - i) % self.max_size

\* line 87
NextIdx(self, idx, i) == (idx - i - 1) % self.max_size

StopsWalk_lenonly(self, next_idx) == next_idx >= self.len

\* line 88
StopsWalk(self, next_idx) == next_idx >= self.len \/ self.dones[next_idx]

\* lines 85-90: the indices gathered, idx first, then older
RECURSIVE WalkBack(_, _, _, _, _)
WalkBack(self, idx, history_len, i, indices) ==
  IF i >= history_len - 1
    THEN indices
    ELSE LET next_idx == NextIdx(self, idx, i)
         IN  IF StopsWalk(self, next_idx)
               THEN indices
               ELSE WalkBack(self, idx, history_len, i + 1,
                             Append(indices, next_idx))

\* lines 82-84, 91-92: zeros, then the gathered observations, oldest first,
\* in the trailing slots.  A fresh array.
Padded(self, history_len, indices) ==
  [ k \in 1 .. history_len |->
      IF k <= history_len - Len(indices)
        THEN 0
        ELSE self.observations[Row(self, indices[history_len - k + 1])] ]

\* get_state, lines 76-96.  The walk path returns a fresh array; the other
\* path, line 94, returns a basic slice, which numpy gives as a view of
\* self.observations: it is read when it is copied.
get_state(self, idx, history_len) ==
  IF NeedsWalk(self, idx, history_len)
    THEN [ kind |-> "array",
           val  |-> Padded(self, history_len,
                           WalkBack(self, idx, history_len, 0, <<idx>>)) ]
    ELSE [ kind |-> "view", lo |-> StartIdx(idx, history_len), hi |-> idx ]

\* np.array(state), lines 122 and 125: the values a state holds when copied
\* out of the store `self`
Copied(self, state) ==
  IF state.kind = "view"
    THEN [ k \in 1 .. (state.hi - state.lo + 1) |->
             self.observations[state.lo + k - 1] ]
    ELSE state.val

\* ---------------------------------------------- get_transition_n_step
RECURSIVE Pow(_, _)
Pow(g, n) == IF n = 0 THEN 1 ELSE g * Pow(g, n - 1)

\* line 104
WindowIndex(self, idx, num) == (idx + num) % self.max_size

Term_late(self, i, gamma, num) == self.rewards[i] * Pow(gamma, num + 1)

\* line 106
Term(self, i, gamma, num) == self.rewards[i] * Pow(gamma, num)

Breaks_never(self, i) == FALSE

\* lines 107-109
Breaks(self, i) == self.dones[i]

\* lines 103-109: the loop from offset num on; num is the last offset taken
RECURSIVE Accumulate(_, _, _, _, _, _)
Accumulate(self, idx, n_step, gamma, num, cum_reward) ==
  LET i    == WindowIndex(self, idx, num)
      cum  == cum_reward + Term(self, i, gamma, num)
      done == Breaks(self, i)
  IN  IF done \/ num + 1 >= n_step
        THEN [ cum_reward |-> cum, done |-> done, num |-> num ]
        ELSE Accumulate(self, idx, n_step, gamma, num + 1, cum)

\* get_transition_n_step, lines 98-110 (n_step >= 1).  self.actions[idx] is
\* a row of a two-dimensional array: a view too.
get_transition_n_step(self, idx, history_len, n_step, gamma) ==
  LET acc == Accumulate(self, idx, n_step, gamma, 0, 0)
  IN  [ state      |-> get_state(self, idx, history_len),
        action     |-> idx,
        reward     |-> acc.cum_reward,
        next_state |-> get_state(self, (idx + n_step) % self.max_size,
                                 history_len),
        done       |-> acc.done,
        num        |-> acc.num ]

\* ------------------------------------------------ Spec: one call at a time
NoRet == [ op |-> "none" ]

\* an object the specification does not build
Absent == [ kind |-> "absent" ]

Idle == [ pc |-> "idle" ]

Init ==
  /\ \E garbage \in [0 .. (Capacity - 1) -> BOOLEAN] :
       buffer = BufferDataset(Capacity, 1, 1, Gamma, garbage)
  /\ hist = [ begun |-> 0, stored |-> 0, recent |-> <<>>, fits |-> TRUE ]
  /\ ret = NoRet
  /\ lock = "free"
  /\ writer = Idle
  /\ reader = Idle
  /\ numpy \in [ keeps_last : BOOLEAN ]
  /\ sampler_buffer = Absent
  /\ seeded = 0

\* the steps an episode adds to the history, as push_episode is handed them
Steps(ep) ==
  [ k \in 1 .. EpisodeLen(ep) |->
      [ observation |-> ep.observations[k], action |-> ep.actions[k],
        reward |-> ep.rewards[k], done |-> ep.dones[k] ] ]

Last(seq, n) ==
  IF Len(seq) <= n THEN seq ELSE SubSeq(seq, Len(seq) - n + 1, Len(seq))

Began(h, self, ep) ==
  [ h EXCEPT !.begun  = @ + EpisodeLen(ep),
             !.recent = Last(@ \o Steps(ep), self.max_size),
             !.fits   = @ /\ EpisodeLen(ep) <= self.max_size ]

Stored(h) == [ h EXCEPT !.stored = h.begun ]

\* the episodes a caller may hand over: any length up to one more than the
\* store holds, any done flags
Episodes(self, h, cap) ==
  UNION { { Episode(h.begun, ds) : ds \in [1 .. n -> BOOLEAN] } :
          n \in 0 .. Min(self.max_size + 1, cap - h.begun) }

\* push_episode(episode), lines 60-74, uninterrupted.  Nothing in it
\* raises, whatever the length of the episode.
PushEpisode ==
  /\ ret = NoRet
  /\ \E ep \in Episodes(buffer, hist, MaxTotal) :
       /\ buffer' = push_episode(buffer, ep, numpy)
       /\ hist' = Stored(Began(hist, buffer, ep))
       /\ ret' = [ op |-> "push_episode", episode_len |-> EpisodeLen(ep),
                   raised |-> "none" ]
  /\ UNCHANGED <<lock, writer, reader, numpy,
               sampler_buffer, seeded>>

\* len(buffer), lines 131-132
CallLen ==
  /\ ret = NoRet
  /\ ret' = [ op |-> "__len__", out |-> BufferLen(buffer) ]
  /\ UNCHANGED <<buffer, hist, lock, writer, reader, numpy,
               sampler_buffer, seeded>>

\* buffer.get_state(idx, history_len), and the state read out
CallGetState ==
  /\ ret = NoRet
  /\ \E idx \in Slots(buffer), h \in 1 .. MaxHistoryLen :
       ret' = [ op |-> "get_state", idx |-> idx, history_len |-> h,
                path |-> get_state(buffer, idx, h).kind,
                out |-> Copied(buffer, get_state(buffer, idx, h)) ]
  /\ UNCHANGED <<buffer, hist, lock, writer, reader, numpy,
               sampler_buffer, seeded>>

\* the rows of observations a get_state(idx, history_len) call reads into
\* its result: those the walk gathers (line 92), or the slice (line 94)
StateSlots(self, idx, history_len) ==
  IF NeedsWalk(self, idx, history_len)
    THEN LET indices == WalkBack(self, idx, history_len, 0, <<idx>>)
         IN  { Row(self, indices[k]) : k \in 1 .. Len(indices) }
    ELSE StartIdx(idx, history_len) .. idx

\* the rows get_transition_n_step(idx, history_len, n_step, gamma) reads
\* into its result: of observations for state and next_state (lines
\* 99-102), of rewards and dones in the loop (lines 105-109), of actions
\* (line 110)
SlotsRead(self, idx, history_len, n_step, gamma) ==
  LET acc == Accumulate(self, idx, n_step, gamma, 0, 0)
  IN  StateSlots(self, idx, history_len)
        \cup StateSlots(self, (idx + n_step) % self.max_size, history_len)
        \cup { WindowIndex(self, idx, num) : num \in 0 .. acc.num }
        \cup { Row(self, idx) }

\* the indices a caller may hand over: the slots, and one or more below
\* and above them
Indices(self) == (-self.max_size - 1) .. self.max_size

\* buffer.get_transition_n_step(idx, history_len, n_step, gamma).  No line
\* compares idx with len: the only IndexError is numpy's, for an idx that
\* names no row (line 92 for one below -max_size, line 110 at the latest
\* for one above max_size-1).
CallGetTransition ==
  /\ ret = NoRet
  /\ \E idx \in Indices(buffer), h \in 1 .. MaxHistoryLen,
        n \in 1 .. MaxNStep :
       ret' = IF InArray(buffer, idx)
                THEN [ op |-> "get_transition_n_step", idx |-> idx,
                       history_len |-> h, n_step |-> n, gamma |-> Gamma,
                       raised |-> "none",
                       out |-> get_transition_n_step(buffer, idx, h, n, Gamma) ]
                ELSE [ op |-> "get_transition_n_step", idx |-> idx,
                       history_len |-> h, n_step |-> n, gamma |-> Gamma,
                       raised |-> "IndexError" ]
  /\ UNCHANGED <<buffer, hist, lock, writer, reader, numpy,
               sampler_buffer, seeded>>

\* the dict __getitem__ builds from a transition, lines 121-127, copied out
\* of the store `self`
Dict(self, t) ==
  [ state      |-> Copied(self, t.state),
    action     |-> self.actions[Row(self, t.action)],
    reward     |-> t.reward,
    next_state |-> Copied(self, t.next_state),
    done       |-> t.done ]

\* buffer[index], lines 112-129, uninterrupted, with the history_len,
\* n_step and gamma the buffer was built with
CallGetItem ==
  /\ ret = NoRet
  /\ \E index \in Indices(buffer) :
       ret' = IF InArray(buffer, index)
                THEN [ op |-> "__getitem__", idx |-> index, raised |-> "none",
                       out |-> Dict(buffer,
                                 get_transition_n_step(buffer, index,
                                   buffer.history_len, buffer.n_step,
                                   buffer.gamma)) ]
                ELSE [ op |-> "__getitem__", idx |-> index,
                       raised |-> "IndexError" ]
  /\ UNCHANGED <<buffer, hist, lock, writer, reader, numpy,
               sampler_buffer, seeded>>

\* the caller takes what the call returned; then the next call is made
Return ==
  /\ ret # NoRet
  /\ ret' = NoRet
  /\ UNCHANGED <<buffer, hist, lock, writer, reader, numpy,
               sampler_buffer, seeded>>

\* ------------------------------------------------------- BufferSampler
\* the epoch lengths and batch sizes samplers are built with
EpochLens == {1, 2}

BatchSizes == {1, 2}

\* BufferSampler(buffer, epoch_len, batch_size), lines 136-142
BufferSampler(epoch_len, batch_size) ==
  [ epoch_len |-> epoch_len, batch_size |-> batch_size,
    len |-> epoch_len * batch_size ]

\* range(n), line 145
Range_inclusive(n) == 0 .. n

Range(n) == 0 .. (n - 1)

\* np.random.choice(a, size): every array of `size` draws from a, with
\* replacement; no array when a is empty (ValueError)
Choice(a, size) == [1 .. size -> a]

\* iter(sampler), lines 144-146: len(self.buffer) is read once, when the
\* pass starts
CallIter ==
  /\ ret = NoRet
  /\ \E epoch_len \in EpochLens, batch_size \in BatchSizes :
       LET self == BufferSampler(epoch_len, batch_size)
           a    == Range(BufferLen(buffer))
       IN  IF a = {}
             THEN ret' = [ op |-> "__iter__", sampler |-> self,
                           raised |-> "ValueError" ]
             ELSE \E indices \in Choice(a, self.len) :
                    ret' = [ op |-> "__iter__", sampler |-> self,
                             raised |-> "none", out |-> indices ]
  /\ UNCHANGED <<buffer, hist, lock, writer, reader, numpy,
               sampler_buffer, seeded>>

Next ==
  \/ PushEpisode \/ CallLen \/ CallGetState \/ CallGetTransition
  \/ CallGetItem \/ CallIter \/ Return

Spec == Init /\ [][Next]_vars

\* ------------------------------- SpecConc: the threads, line by line
\* One thread pushes episodes while another samples: it asks the sampler
\* for indices (BufferSampler.__iter__, which calls len(buffer)) and fetches
\* buffer[index].  _store_lock is taken by push_episode (line 61) and by
\* __getitem__ (line 113) only.
InitConc ==
  /\ \E garbage \in [0 .. (ConcCapacity - 1) -> BOOLEAN],
        history_len \in 1 .. ConcCapacity :
       buffer = BufferDataset(ConcCapacity, history_len, 1, Gamma, garbage)
  /\ hist = [ begun |-> 0, stored |-> 0, recent |-> <<>>, fits |-> TRUE ]
  /\ ret = NoRet
  /\ lock = "free"
  /\ writer = Idle
  /\ reader = Idle
  /\ numpy \in [ keeps_last : BOOLEAN ]
  /\ sampler_buffer = Absent
  /\ seeded = 0

\* line 61: push_episode(episode) is called and enters the lock
WriterEnter ==
  /\ writer.pc = "idle"
  /\ lock = "free"
  /\ \E ep \in Episodes(buffer, hist, ConcMaxTotal) :
       /\ writer' = [ pc |-> "l64", episode |-> ep ]
       /\ hist' = Began(hist, buffer, ep)
  /\ lock' = "writer"
  /\ UNCHANGED <<buffer, ret, reader, numpy,
               sampler_buffer, seeded>>

\* line 64
WriterSetLen ==
  /\ writer.pc = "l64"
  /\ buffer' = SetLen(buffer, writer.episode)
  /\ writer' = [ writer EXCEPT !.pc = "l69" ]
  /\ UNCHANGED <<hist, ret, lock, reader, numpy,
               sampler_buffer, seeded>>

\* line 69
WriterObservations ==
  /\ writer.pc = "l69"
  /\ buffer' = WriteObservations(buffer, writer.episode, numpy)
  /\ writer' = [ writer EXCEPT !.pc = "l70" ]
  /\ UNCHANGED <<hist, ret, lock, reader, numpy,
               sampler_buffer, seeded>>

\* line 70
WriterActions ==
  /\ writer.pc = "l70"
  /\ buffer' = WriteActions(buffer, writer.episode, numpy)
  /\ writer' = [ writer EXCEPT !.pc = "l71" ]
  /\ UNCHANGED <<hist, ret, lock, reader, numpy,
               sampler_buffer, seeded>>

\* line 71
WriterRewards ==
  /\ writer.pc = "l71"
  /\ buffer' = WriteRewards(buffer, writer.episode, numpy)
  /\ writer' = [ writer EXCEPT !.pc = "l72" ]
  /\ UNCHANGED <<hist, ret, lock, reader, numpy,
               sampler_buffer, seeded>>

\* line 72
WriterDones ==
  /\ writer.pc = "l72"
  /\ buffer' = WriteDones(buffer, writer.episode, numpy)
  /\ writer' = [ writer EXCEPT !.pc = "l74" ]
  /\ UNCHANGED <<hist, ret, lock, reader, numpy,
               sampler_buffer, seeded>>

\* line 74, and the end of the with block: the lock is released
WriterLeave ==
  /\ writer.pc = "l74"
  /\ buffer' = AdvancePointer(buffer, writer.episode)
  /\ hist' = Stored(hist)
  /\ writer' = Idle
  /\ lock' = "free"
  /\ UNCHANGED <<ret, reader, numpy,
               sampler_buffer, seeded>>

\* BufferSampler.__iter__, line 145: len(self.buffer), that is __len__,
\* line 132, which takes no lock
ReaderLen ==
  /\ reader.pc = "idle"
  /\ reader' = [ pc |-> "drawn", seen |-> BufferLen(buffer) ]
  /\ UNCHANGED <<buffer, hist, ret, lock, writer, numpy,
               sampler_buffer, seeded>>

\* line 145: np.random.choice over an empty range raises ValueError
ReaderNothingToDraw ==
  /\ reader.pc = "drawn"
  /\ reader.seen = 0
  /\ reader' = Idle
  /\ UNCHANGED <<buffer, hist, ret, lock, writer, numpy,
               sampler_buffer, seeded>>

\* lines 145-146 and 113-119: an index of range(len) is drawn, and
\* __getitem__(index) assembles the transition inside the lock.  Nothing
\* else of the store can change while the lock is held, so the locked block
\* is one step.  `began` is the number of steps of the pushes begun by then.
ReaderAssemble ==
  /\ reader.pc = "drawn"
  /\ lock = "free"
  /\ \E index \in 0 .. (reader.seen - 1) :
       reader' = [ pc    |-> "l122",
                   index |-> index,
                   began |-> hist.begun,
                   out   |-> get_transition_n_step(buffer, index,
                               buffer.history_len, buffer.n_step, buffer.gamma),
                   dct   |-> [ state |-> <<>>, action |-> Uninit,
                               next_state |-> <<>> ] ]
  /\ UNCHANGED <<buffer, hist, ret, lock, writer, numpy,
               sampler_buffer, seeded>>

\* line 122, outside the lock: np.array(state) copies the state
ReaderCopyState ==
  /\ reader.pc = "l122"
  /\ reader' = [ reader EXCEPT !.pc = "l123",
                   !.dct.state = Copied(buffer, reader.out.state) ]
  /\ UNCHANGED <<buffer, hist, ret, lock, writer, numpy,
               sampler_buffer, seeded>>

\* line 123: np.array(action) copies the row of self.actions
ReaderCopyAction ==
  /\ reader.pc = "l123"
  /\ reader' = [ reader EXCEPT !.pc = "l125",
                   !.dct.action = buffer.actions[reader.out.action] ]
  /\ UNCHANGED <<buffer, hist, ret, lock, writer, numpy,
               sampler_buffer, seeded>>

\* lines 124-129: reward and done are values already; np.array(next_state)
\* copies the next state; the dict is returned
ReaderCopyNextState ==
  /\ reader.pc = "l125"
  /\ reader' = [ reader EXCEPT !.pc = "returned",
                   !.dct.next_state = Copied(buffer, reader.out.next_state) ]
  /\ UNCHANGED <<buffer, hist, ret, lock, writer, numpy,
               sampler_buffer, seeded>>

\* the loader takes the transition
ReaderTakes ==
  /\ reader.pc = "returned"
  /\ reader' = Idle
  /\ UNCHANGED <<buffer, hist, ret, lock, writer, numpy,
               sampler_buffer, seeded>>

NextConc ==
  \/ WriterEnter \/ WriterSetLen \/ WriterObservations \/ WriterActions
  \/ WriterRewards \/ WriterDones \/ WriterLeave
  \/ ReaderLen \/ ReaderNothingToDraw \/ ReaderAssemble \/ ReaderCopyState
  \/ ReaderCopyAction \/ ReaderCopyNextState \/ ReaderTakes

SpecConc == InitConc /\ [][NextConc]_vars

\* ------------------------------------------------------ SamplerBuffer
Max(a, b) == IF a >= b THEN a ELSE b

\* SamplerBuffer(capacity, ...), lines 153-174: four arrays of `capacity`
\* rows each, uninitialised (np.empty); `garbage` is what the flags hold
SamplerBuffer(capacity, garbage) ==
  [ size         |-> capacity,
    pointer      |-> 0,
    observations |-> [i \in 0 .. (capacity - 1) |-> Uninit],
    actions      |-> [i \in 0 .. (capacity - 1) |-> Uninit],
    rewards      |-> [i \in 0 .. (capacity - 1) |-> Uninit],
    dones        |-> garbage ]

\* the j-th observation (j = 0 for the one the episode is seeded with) of
\* the e-th episode handed to the buffer: no two are equal, none is 0
Observation(self, e, j) == e * (self.size + 2) + j + 1

\* the action and the reward of the j-th transition (j = 1, 2, ...) of the
\* e-th episode
Action(self, e, j) == e * (self.size + 2) + j

\* init_with_observation(observation), lines 176-178
init_with_observation(self, observation) ==
  [self EXCEPT !.observations[0] = observation, !.pointer = 0]

\* line 194 indexes observations, of `size` rows, at pointer + 1
Overflows(self) == self.pointer + 1 >= self.size

\* push_transition(transition), lines 193-198, when line 194 does not raise
push_transition(self, s_tp1, a_t, r_t, d_t) ==
  [self EXCEPT !.observations[self.pointer + 1] = s_tp1,
               !.actions[self.pointer] = a_t,
               !.rewards[self.pointer] = r_t,
               !.dones[self.pointer] = d_t,
               !.pointer = self.pointer + 1]

\* np.arange(self.pointer), line 201
Arange_inclusive(n) == [k \in 1 .. (n + 1) |-> k - 1]

Arange(n) == [k \in 1 .. n |-> k - 1]

\* arr[indices], lines 202-205
Take(arr, indices) == [k \in 1 .. Len(indices) |-> arr[indices[k]]]

\* get_complete_episode(), lines 200-206
get_complete_episode(self) ==
  LET indices == Arange(self.pointer)
  IN  [ observations |-> Take(self.observations, indices),
        actions      |-> Take(self.actions, indices),
        rewards      |-> Take(self.rewards, indices),
        dones        |-> Take(self.dones, indices) ]

\* line 181, `pointer or self.pointer`: python takes the right operand for
\* every falsy left one, the pointer 0 as much as the default None
PointerOr(self, pointer) == IF pointer = 0 THEN self.pointer ELSE pointer

\* SamplerBuffer.get_state(history_len, pointer), lines 180-188
SamplerBuffer_get_state(self, history_len, pointer) ==
  LET p  == PointerOr(self, pointer)
      lo == Max(0, p - history_len + 1)
      n  == p - lo + 1
  IN  [ k \in 1 .. history_len |->
          IF k <= history_len - n
            THEN 0
            ELSE self.observations[lo + k - (history_len - n) - 1] ]

\* get_states_history(history_len), lines 208-214
get_states_history(self, history_len) ==
  [ k \in 1 .. self.pointer |->
      SamplerBuffer_get_state(self, history_len, k - 1) ]

InitAcc ==
  /\ \E garbage \in [0 .. (AccCapacity - 1) -> BOOLEAN] :
       sampler_buffer = SamplerBuffer(AccCapacity, garbage)
  /\ seeded = 0
  /\ ret = NoRet
  /\ buffer = Absent
  /\ hist = Absent
  /\ lock = "free"
  /\ writer = Idle
  /\ reader = Idle
  /\ numpy = [ keeps_last |-> TRUE ]

\* sampler_buffer.init_with_observation(o0) for the first observation of
\* the next episode
InitWithObservation ==
  /\ ret = NoRet
  /\ seeded < MaxEpisodes
  /\ seeded' = seeded + 1
  /\ sampler_buffer' =
       init_with_observation(sampler_buffer,
                             Observation(sampler_buffer, seeded + 1, 0))
  /\ ret' = [ op |-> "init_with_observation" ]
  /\ UNCHANGED <<buffer, hist, lock, writer, reader, numpy>>

\* sampler_buffer.push_transition((s_tp1, a_t, r_t, d_t)) for the next
\* transition of the episode: line 194 raises IndexError before anything
\* is written when pointer + 1 names no row
PushTransition ==
  /\ ret = NoRet
  /\ \E d_t \in BOOLEAN :
       LET self == sampler_buffer
           j    == self.pointer + 1
       IN  IF Overflows(self)
             THEN /\ sampler_buffer' = self
                  /\ ret' = [ op |-> "push_transition",
                              pointer |-> self.pointer,
                              raised |-> "IndexError" ]
             ELSE /\ sampler_buffer' =
                       push_transition(self, Observation(self, seeded, j),
                                       Action(self, seeded, j),
                                       Action(self, seeded, j), d_t)
                  /\ ret' = [ op |-> "push_transition",
                              pointer |-> self.pointer,
                              raised |-> "none" ]
  /\ UNCHANGED <<buffer, hist, lock, writer, reader, numpy, seeded>>

\* sampler_buffer.get_complete_episode()
GetCompleteEpisode ==
  /\ ret = NoRet
  /\ ret' = [ op |-> "get_complete_episode",
              out |-> get_complete_episode(sampler_buffer) ]
  /\ UNCHANGED <<buffer, hist, lock, writer, reader, numpy,
                 sampler_buffer, seeded>>

\* sampler_buffer.get_states_history(history_len)
GetStatesHistory ==
  /\ ret = NoRet
  /\ \E history_len \in 1 .. MaxHistoryLen :
       ret' = [ op |-> "get_states_history", history_len |-> history_len,
                out |-> get_states_history(sampler_buffer, history_len) ]
  /\ UNCHANGED <<buffer, hist, lock, writer, reader, numpy,
                 sampler_buffer, seeded>>

\* the caller takes what the call gave back
ReturnAcc ==
  /\ ret # NoRet
  /\ ret' = NoRet
  /\ UNCHANGED <<buffer, hist, lock, writer, reader, numpy,
                 sampler_buffer, seeded>>

NextAcc ==
  \/ InitWithObservation \/ PushTransition \/ GetCompleteEpisode
  \/ GetStatesHistory \/ ReturnAcc

SpecAcc == InitAcc /\ [][NextAcc]_vars

\* ------------------------------------------------------------- claims
\* C1: after every push_episode, len() <= max_size; and once more than
\* max_size steps have been pushed in total, len() = max_size.
CapacityBound ==
  /\ BufferLen(buffer) <= buffer.max_size
  /\ hist.stored > buffer.max_size => BufferLen(buffer) = buffer.max_size
  /\ ret.op = "__len__" =>
       /\ ret.out <= buffer.max_size
       /\ hist.stored > buffer.max_size => ret.out = buffer.max_size

CapacityBound_witness ==
  /\ ret.op = "__len__"
  /\ hist.stored > buffer.max_size
  /\ ret.out = buffer.max_size

\* C2: when every episode pushed was no longer than max_size and max_size + k
\* steps (k > 0) were pushed, the step pushed j-th (j = 1 for the first) of
\* the last max_size steps is held, observation, action, reward and done
\* together, by slot (j - 1) mod max_size, and no array holds any of the
\* first k steps.
OverwriteCorrectness ==
  (hist.fits /\ hist.stored > buffer.max_size) =>
    LET C == buffer.max_size
        k == hist.stored - C
    IN  /\ Len(hist.recent) = C
        /\ \A j \in (k + 1) .. hist.stored :
             LET slot == (j - 1) % C
                 step == hist.recent[j - k]
             IN  /\ step.observation = j
                 /\ buffer.observations[slot] = step.observation
                 /\ buffer.actions[slot] = step.action
                 /\ buffer.rewards[slot] = step.reward
                 /\ buffer.dones[slot] = step.done
        /\ \A s \in Slots(buffer) :
             /\ buffer.observations[s] > k
             /\ buffer.actions[s] > k
             /\ buffer.rewards[s] > k

OverwriteCorrectness_witness ==
  /\ ret.op = "push_episode"
  /\ ret.episode_len > 1
  /\ hist.fits
  /\ hist.stored > 2 * buffer.max_size

\* C3: a push_episode of an episode longer than max_size raises
\* CapacityError and leaves len, pointer and the four arrays as they were.
OversizeEpisodeRejected ==
  [][ (ret'.op = "push_episode" /\ ret'.episode_len > buffer.max_size) =>
        (ret'.raised = "CapacityError" /\ buffer' = buffer) ]_vars

\* C6: get_state(idx, h) with idx > 0, h > 1 and dones[idx - 1] set gives
\* the observation at idx in its last slot and zeros in all the others.
EpisodeBoundaryTruncation ==
  ( /\ ret.op = "get_state"
    /\ ret.idx > 0
    /\ ret.history_len > 1
    /\ buffer.dones[ret.idx - 1] ) =>
      /\ Len(ret.out) = ret.history_len
      /\ ret.out[ret.history_len] = buffer.observations[ret.idx]
      /\ \A k \in 1 .. (ret.history_len - 1) : ret.out[k] = 0

EpisodeBoundaryTruncation_witness ==
  /\ ret.op = "get_state"
  /\ ret.idx > 1
  /\ ret.idx < buffer.len
  /\ ret.history_len > 2
  /\ buffer.dones[ret.idx - 1]
  /\ ~buffer.dones[ret.idx - 2]
  /\ ret.out[ret.history_len] > 0

\* C7: while at most max_size steps have been pushed (exactly max_size
\* included), get_state(idx, h) of a filled idx < h - 1 gives h - 1 - idx
\* zeros and then the observations at 0 .. idx in order.  (Stated for the
\* steps of one episode: no done flag in slots 0 .. idx-1, where C6 applies.)
ZeroPaddingBeforeWrap ==
  ( /\ ret.op = "get_state"
    /\ hist.stored <= buffer.max_size
    /\ ret.idx < buffer.len
    /\ ret.idx < ret.history_len - 1
    /\ \A j \in 0 .. (ret.idx - 1) : ~buffer.dones[j] ) =>
      /\ Len(ret.out) = ret.history_len
      /\ \A k \in 1 .. ret.history_len :
           ret.out[k] = IF k <= ret.history_len - 1 - ret.idx
                          THEN 0
                          ELSE buffer.observations[k - ret.history_len + ret.idx]

\* C8: get_state(idx, h) of a filled idx >= h - 1 whose own done flag is set,
\* with no done flag in idx-h+1 .. idx-1, walks back and still gives the
\* observations at idx-h+1 .. idx in order, as the slice would.
DoneOnTargetKeepsHistory ==
  ( /\ ret.op = "get_state"
    /\ ret.idx < buffer.len
    /\ ret.idx >= ret.history_len - 1
    /\ buffer.dones[ret.idx]
    /\ \A j \in (ret.idx - ret.history_len + 1) .. (ret.idx - 1) :
         ~buffer.dones[j] ) =>
      /\ ret.path = "array"
      /\ ret.out = [ k \in 1 .. ret.history_len |->
                       buffer.observations[ret.idx - ret.history_len + k] ]

DoneOnTargetKeepsHistory_witness ==
  /\ ret.op = "get_state"
  /\ ret.idx < buffer.len
  /\ ret.history_len > 2
  /\ ret.idx >= ret.history_len - 1
  /\ buffer.dones[ret.idx]
  /\ \A j \in (ret.idx - ret.history_len + 1) .. (ret.idx - 1) :
       ~buffer.dones[j]
  /\ \A k \in 1 .. ret.history_len : ret.out[k] > 0

\* the sum of rewards[(idx + i) mod max_size] * gamma^i over i in 0 .. upto
RECURSIVE DiscountedSum(_, _, _, _)
DiscountedSum(self, idx, gamma, upto) ==
  IF upto < 0
    THEN 0
    ELSE DiscountedSum(self, idx, gamma, upto - 1)
           + self.rewards[(idx + upto) % self.max_size] * Pow(gamma, upto)

\* the offsets in 0 .. n_step-1 whose slot has its done flag set
DoneOffsets(self, idx, n_step) ==
  { d \in 0 .. (n_step - 1) : self.dones[(idx + d) % self.max_size] }

FirstOf(S) == CHOOSE d \in S : \A e \in S : d <= e

\* C9: get_transition_n_step stops right after the first done slot of its
\* window: with the first done at offset d it has taken the d + 1 terms at
\* offsets 0 .. d and reports done; with no done in the window it has taken
\* all n_step terms and reports not done.
NStepTruncation ==
  (ret.op = "get_transition_n_step" /\ ret.raised = "none") =>
    LET W == DoneOffsets(buffer, ret.idx, ret.n_step)
    IN  IF W = {}
          THEN /\ ret.out.num = ret.n_step - 1
               /\ ret.out.done = FALSE
          ELSE /\ ret.out.num = FirstOf(W)
               /\ ret.out.done = TRUE
               /\ ret.out.reward =
                    DiscountedSum(buffer, ret.idx, ret.gamma, FirstOf(W))

NStepTruncation_witness ==
  /\ ret.op = "get_transition_n_step"
  /\ ret.raised = "none"
  /\ ret.n_step > 2
  /\ ret.idx < buffer.len
  /\ DoneOffsets(buffer, ret.idx, ret.n_step) = {1, 2}
  /\ ret.out.num = 1
  /\ ret.out.done

\* C10: with no done flag in the window, the return is the sum of
\* rewards[(idx + i) mod max_size] * gamma^i over i in 0 .. n_step-1, also
\* when the window runs past the end of the array.
DiscountCorrectness ==
  ( /\ ret.op = "get_transition_n_step"
    /\ ret.raised = "none"
    /\ DoneOffsets(buffer, ret.idx, ret.n_step) = {} ) =>
      ret.out.reward =
        DiscountedSum(buffer, ret.idx, ret.gamma, ret.n_step - 1)

DiscountCorrectness_witness ==
  /\ ret.op = "get_transition_n_step"
  /\ ret.raised = "none"
  /\ ret.idx >= 0
  /\ DoneOffsets(buffer, ret.idx, ret.n_step) = {}
  /\ buffer.len = buffer.max_size
  /\ ret.n_step > 1
  /\ ret.idx + ret.n_step > buffer.max_size
  /\ ret.out.reward > buffer.rewards[ret.idx]


\* C4: a transition returned by __getitem__ while episodes are pushed holds
\* in state and next_state only observations of pushes begun by the time
\* its locked block ran: nothing written by a later push, the copies made
\* after the lock is released included.
NoTornRead ==
  reader.pc = "returned" =>
    /\ \A k \in DOMAIN reader.dct.state :
         reader.dct.state[k] <= reader.began
    /\ \A k \in DOMAIN reader.dct.next_state :
         reader.dct.next_state[k] <= reader.began

\* C5: len() never returns a count that includes steps of a push whose
\* arrays and pointer are not written yet: it returns the len of the store
\* as the last completed push left it.
LenReadUnderLock ==
  [][ (reader.pc = "idle" /\ reader'.pc = "drawn") =>
        reader'.seen <= Min(buffer.max_size, hist.stored) ]_vars


\* C11: get_transition_n_step and __getitem__ raise IndexError for every
\* index outside [0, len): those in [len, max_size) of a partly filled
\* store and the negative ones included.
IndexOutsideFilledRaises ==
  ( /\ ret.op \in {"get_transition_n_step", "__getitem__"}
    /\ (ret.idx < 0 \/ ret.idx >= buffer.len) ) =>
      ret.raised = "IndexError"


\* C12: with len = 0 every sampling attempt, a pass of the sampler or a
\* __getitem__ call, ends in an error.
SamplingEmptyFails ==
  ( /\ ret.op \in {"__iter__", "__getitem__"}
    /\ buffer.len = 0 ) =>
      ret.raised # "none"

\* C13: a pass of the sampler yields exactly epoch_len * batch_size
\* indices, each in [0, len()) for the len() read when the pass starts.
EpochPassIndices ==
  (ret.op = "__iter__" /\ ret.raised = "none") =>
    /\ Len(ret.out) = ret.sampler.epoch_len * ret.sampler.batch_size
    /\ \A k \in 1 .. Len(ret.out) :
         0 <= ret.out[k] /\ ret.out[k] < BufferLen(buffer)

\* a pass of 4 draws on a partly filled store that repeats an index and
\* draws the last valid one
EpochPassIndices_witness ==
  /\ ret.op = "__iter__"
  /\ ret.raised = "none"
  /\ 0 < buffer.len /\ buffer.len < buffer.max_size
  /\ Len(ret.out) = 4
  /\ ret.out[1] = ret.out[2]
  /\ ret.out[4] = buffer.len - 1

AppendFailsOnlyBeyondCapacity ==
  ret.op = "push_transition" =>
    (ret.raised # "none" <=> ret.pointer + 1 > sampler_buffer.size)

\* C16: get_states_history(h) with pointer k returns k states, and for
\* every i in 0..k-1, i = 0 included, the i-th ends at observation i: its
\* last min(i+1, h) rows are observations max(0, i-h+1)..i, the rows
\* before them zeros.
HistoryStateEndsAtItsObservation ==
  ret.op = "get_states_history" =>
    LET self == sampler_buffer
        h    == ret.history_len
    IN  /\ Len(ret.out) = self.pointer
        /\ \A i \in 0 .. (self.pointer - 1) :
             ret.out[i + 1] =
               [ j \in 1 .. h |->
                   IF i - (h - j) < 0 THEN 0
                   ELSE self.observations[i - (h - j)] ]

\* C17: in every state of the store, wrapped or not, get_state(idx, h) of a
\* filled idx holds only observations of steps pushed before the step at
\* idx or of that step itself, never one of the newest steps, stored just
\* before the pointer.  (Stated for stores no episode longer than max_size
\* was pushed to; the steps carry their push order.)
StateHoldsNoLaterStep ==
  ( /\ ret.op = "get_state"
    /\ hist.fits
    /\ ret.idx < buffer.len ) =>
      \A k \in 1 .. Len(ret.out) :
        ret.out[k] <= buffer.observations[ret.idx]

\* C18: for every idx in [0, len), every slot get_transition_n_step reads
\* for the state, the next state at (idx + n_step) mod max_size, the
\* action, the return and the done flag lies in [0, len).
ReadsOnlyFilledSlots ==
  ( /\ ret.op = "get_transition_n_step"
    /\ ret.raised = "none"
    /\ 0 <= ret.idx /\ ret.idx < buffer.len ) =>
      SlotsRead(buffer, ret.idx, ret.history_len, ret.n_step, ret.gamma)
        \subseteq 0 .. (buffer.len - 1)

\* C19: len never decreases across push_episode, so under any
\* interleaving of pushes an index drawn from [0, len()) is still below
\* len whenever it is later passed to __getitem__: every index the reader
\* may draw from the len it saw, and the index it is assembling or has
\* assembled, is below the len of the store.
DrawnIndexStaysValid ==
  /\ reader.pc = "drawn" => reader.seen <= buffer.len
  /\ reader.pc \in {"l122", "l123", "l125", "returned"} =>
       reader.index < buffer.len

\* the reader drew from a len of 1, a push set len to 2 and is still
\* writing, and the reader has assembled index 0
DrawnIndexStaysValid_witness ==
  /\ reader.pc = "l122"
  /\ reader.index = 0
  /\ writer.pc = "l70"
  /\ buffer.len = 2
  /\ hist.stored = 1

\* C20: after every completed push, 0 <= pointer < max_size and pointer is
\* the number of steps pushed so far modulo max_size; while len < max_size,
\* pointer = len and the written slots are exactly those of [0, len).
PointerTracksPushes ==
  /\ buffer.pointer \in Slots(buffer)
  /\ buffer.pointer = hist.stored % buffer.max_size
  /\ buffer.len < buffer.max_size =>
       /\ buffer.pointer = buffer.len
       /\ \A i \in Slots(buffer) :
            buffer.observations[i] # Uninit <=> i < buffer.len

\* a push has wrapped the pointer past the end of the arrays
PointerTracksPushes_witness ==
  /\ ret.op = "push_episode"
  /\ ret.episode_len = 2
  /\ hist.stored = buffer.max_size + 2
  /\ buffer.pointer = 2

=============================================================================
